---- MODULE Spec2Model ----
(***************************************************************************)
(* Model of the envsubst template parser (envsubst/parse/parse.go).        *)
(*                                                                         *)
(* A template is a sequence of runes (one-character strings).  The         *)
(* recursive-descent productions of parse.go are operators that thread the *)
(* scanner record through every call, exactly as the Go methods mutate     *)
(* t.scanner.  The scanner itself (scan.go), the node constructors         *)
(* (node.go) and the expansion engine are not part of the available        *)
(* sources; they are modelled from the specification and from the way      *)
(* parse.go uses them.                                                     *)
(***************************************************************************)
EXTENDS Integers, Sequences, FiniteSets, TLC

(***************************************************************************)
(* Bounds of the model.                                                    *)
(***************************************************************************)
\* Longest template over Alphabet that is enumerated exhaustively.
MaxLen == 4

(***************************************************************************)
(* Errors (parse.go:27-45).  NoErr is Go's nil error.                      *)
(***************************************************************************)
NoErr == "nil"
ErrBadSubstitution == "bad substitution"
ErrMissingClosingBrace == "missing closing brace"
ErrParseVariableName == "unable to parse variable name"
ErrParseFuncSubstitution == "unable to parse substitution within function"
ErrParseDefaultFunction == "unable to parse default function"
\* Not a Go error: the step budget of the model ran out, i.e. the parser
\* repeated a step without consuming input.
ErrDiverged == "diverged"

(***************************************************************************)
(* Scanner: tokens, mode bits, escape bits.                                *)
(***************************************************************************)
eof == "EOF"

tokenIllegal == "tokenIllegal"
tokenEOF == "tokenEOF"
tokenIdent == "tokenIdent"
tokenLbrack == "tokenLbrack"
tokenRbrack == "tokenRbrack"

\* A mode is a set of bits; the Go code ors them together.
scanIdent == {"scanIdent"}
scanLbrack == {"scanLbrack"}
scanRbrack == {"scanRbrack"}
scanEscape == {"scanEscape"}

dollar == {"dollar"}
backslash == {"backslash"}
escapeAll == dollar \cup backslash

Letters == {"a", "b", "x", "y", "V", "A", "R", "O", "T", "H", "E"}
Digits == {"1", "2", "3"}

\* The acceptance predicates parse.go installs in the scanner.  i is the
\* number of runes of the current token read so far, r included.
accept(f, r, i) ==
  CASE f = "acceptRune" -> TRUE
    [] f = "acceptIdent" -> r \in Letters \cup Digits \cup {"_"}
    [] f = "acceptColon" -> r = ":"
    [] f = "acceptOneHash" -> r = "#" /\ i = 1
    [] f = "acceptNotClosing" -> r # "}"
    [] f = "acceptHashFunc" -> r = "#" /\ i < 3
    [] f = "acceptPercentFunc" -> r = "%" /\ i < 3
    [] f = "acceptDefaultFunc" ->
         \/ i = 1 /\ r = ":"
         \/ i = 2 /\ r \in {"=", "-", "?", "+"}
    [] f = "acceptReplaceFunc" ->
         \/ i = 1 /\ r = "/"
         \/ i = 2 /\ r \in {"/", "#", "%"}
    [] f = "acceptOneEqual" -> i = 1 /\ r = "="
    [] f = "acceptOneColon" -> i = 1 /\ r = ":"
    [] f = "rejectColonClose" -> r # ":" /\ r # "}"
    [] f = "acceptSlash" -> r = "/"
    [] f = "acceptNotSlash" -> r # "/"
    [] f = "acceptCasingFunc" -> r \in {",", "^"} /\ i < 3
    [] OTHER -> FALSE

\* scanner.init: the scanner over buf, cursor at 0.  hist and fuel are
\* history fields of the model (see Log and parseAny).
init(buf) ==
  [buf |-> buf, pos |-> 0, start |-> 0, width |-> 0, mode |-> {},
   escapeChars |-> {}, accept |-> "nil", hist |-> <<>>, fuel |-> Len(buf) + 2]

\* read: the next rune, advancing the cursor; eof (width 0) at the end.
read(s) ==
  IF s.pos >= Len(s.buf)
    THEN [s |-> [s EXCEPT !.width = 0], r |-> eof]
    ELSE [s |-> [s EXCEPT !.width = 1, !.pos = s.pos + 1], r |-> s.buf[s.pos + 1]]

\* unread: steps back over the rune read last.
unread(s) == [s EXCEPT !.pos = s.pos - s.width]

\* peek: the next rune, cursor unchanged.
peek(s) == IF s.pos >= Len(s.buf) THEN eof ELSE s.buf[s.pos + 1]

\* skip: removes the rune just read (the escaping rune) from the buffer.
skip(s) ==
  [s EXCEPT !.buf = SubSeq(s.buf, 1, s.pos - 1) \o SubSeq(s.buf, s.pos + 1, Len(s.buf))]

\* string: the text of the token scanned last.
string(s) == SubSeq(s.buf, s.start + 1, s.pos)

shouldEscape(s, character) == (s.escapeChars \cap character) # {}

\* scanner.scanLbrack: true when r is "$" and the rune after it is "{", which
\* is then consumed.
scanLbrack_next(rd) ==
  IF rd.r = "{" THEN [s |-> rd.s, ok |-> TRUE] ELSE [s |-> unread(rd.s), ok |-> FALSE]
s_scanLbrack(s, r) ==
  IF s.mode \cap scanLbrack = {} THEN [s |-> s, ok |-> FALSE]
  ELSE IF r = "$" THEN scanLbrack_next(read(s))
  ELSE [s |-> s, ok |-> FALSE]

\* scanner.scanRbrack: true when r is "}".
s_scanRbrack(s, r) == IF s.mode \cap scanRbrack = {} THEN FALSE ELSE r = "}"

\* scanEscaped: true when r escapes the rune after it.
scanEscaped(s, r) ==
  IF s.mode \cap scanEscape = {} THEN FALSE
  ELSE IF r = "$" /\ shouldEscape(s, dollar) /\ peek(s) = "$" THEN TRUE
  ELSE IF r = "\\" /\ shouldEscape(s, backslash) THEN peek(s) \in {"/", "\\"}
  ELSE FALSE

RECURSIVE scanIdentLoop(_)
\* The loop of scanner.scanIdent: extends the token while runes are accepted,
\* and stops before the end of input, before "${" and before a rejected rune.
scanIdentLoop_rune(lb, r) ==
  IF lb.ok THEN unread(unread(lb.s))
  ELSE IF scanEscaped(lb.s, r) THEN scanIdentLoop(skip(lb.s))
  ELSE IF ~accept(lb.s.accept, r, lb.s.pos - lb.s.start) THEN unread(lb.s)
  ELSE scanIdentLoop(lb.s)
scanIdentLoop_read(rd) ==
  IF rd.r = eof THEN unread(rd.s) ELSE scanIdentLoop_rune(s_scanLbrack(rd.s, rd.r), rd.r)
scanIdentLoop(s) == scanIdentLoop_read(read(s))

\* scanner.scanIdent: r was read already; true when an identifier token was
\* scanned.
s_scanIdent(s, r) ==
  IF s.mode \cap scanIdent = {} THEN [s |-> s, ok |-> FALSE]
  ELSE IF scanEscaped(s, r) THEN [s |-> scanIdentLoop(skip(s)), ok |-> TRUE]
  ELSE IF ~accept(s.accept, r, s.pos - s.start) THEN [s |-> s, ok |-> FALSE]
  ELSE [s |-> scanIdentLoop(s), ok |-> TRUE]

\* scan: the next token under the scanner's accept, mode and escapeChars.
scan_ident(id) == [s |-> id.s, tok |-> IF id.ok THEN tokenIdent ELSE tokenIllegal]
scan_brack(lb, r) ==
  IF lb.ok THEN [s |-> lb.s, tok |-> tokenLbrack]
  ELSE IF s_scanRbrack(lb.s, r) THEN [s |-> lb.s, tok |-> tokenRbrack]
  ELSE scan_ident(s_scanIdent(lb.s, r))
scan_rune(rd) ==
  IF rd.r = eof THEN [s |-> rd.s, tok |-> tokenEOF]
  ELSE scan_brack(s_scanLbrack(rd.s, rd.r), rd.r)
scan(s0) == scan_rune(read([s0 EXCEPT !.start = s0.pos]))

(***************************************************************************)
(* Nodes.  nil is Go's nil Node, empty the package's empty sentinel.       *)
(* prod is a history field: the production that built the Func node.       *)
(***************************************************************************)
nil == [kind |-> "nil"]
empty == [kind |-> "empty"]
newTextNode(text) == [kind |-> "Text", Value |-> text]
newListNode(left, right) == [kind |-> "List", Left |-> left, Right |-> right]
FuncNode(prod, param, name, args) ==
  [kind |-> "Func", Param |-> param, Name |-> name, Args |-> args, prod |-> prod]
newFuncNode(name) == FuncNode("parseFunc", name, <<>>, <<>>)
\* node.Args = append(node.Args, param)
AppendArg(node, param) == [node EXCEPT !.Args = Append(node.Args, param)]

(***************************************************************************)
(* The parser.  A production takes the scanner and returns (Node, error)   *)
(* and the scanner it leaves.  The statements of a Go function that follow *)
(* a scan or a call are an operator named function_step, which takes the   *)
(* result of that scan or call.                                            *)
(***************************************************************************)
Ret(node, err, s) == [node |-> node, err |-> err, s |-> s]
\* return nil, err
Fail(r) == Ret(nil, r.err, r.s)

\* History: the cursor at the start of every parseAny call ("parseAny") and
\* of every iteration of parseDefaultFunc's loop ("word"), and the cursor
\* before and after the lookahead of parseDefaultOrSubstr ("lookahead").
Log(s, ev, pos, after, r) ==
  [s EXCEPT !.hist = Append(s.hist, [ev |-> ev, pos |-> pos, after |-> after, r |-> r])]
\* A step that is allowed to repeat takes one unit of the step budget.
Step(s, ev) == [Log(s, ev, s.pos, s.pos, eof) EXCEPT !.fuel = s.fuel - 1]

RECURSIVE parseAny(_)
RECURSIVE parseFunc(_)
RECURSIVE parseDefaultLoop(_, _)

\* consumeRbrack consumes a right closing bracket.
consumeRbrack_tok(sc) ==
  [err |-> IF sc.tok # tokenRbrack THEN ErrBadSubstitution ELSE NoErr, s |-> sc.s]
consumeRbrack(s0) == consumeRbrack_tok(scan([s0 EXCEPT !.mode = scanRbrack]))

\* return node, t.consumeRbrack()
Close(node, cr) == Ret(node, cr.err, cr.s)

\* parseParam taking the end of input for an empty literal.
parseParam_tok_eofText(sc) ==
  CASE sc.tok = tokenLbrack -> parseFunc(sc.s)
    [] sc.tok = tokenIdent -> Ret(newTextNode(string(sc.s)), NoErr, sc.s)
    [] sc.tok = tokenRbrack -> Ret(newTextNode(string(sc.s)), NoErr, sc.s)
    [] sc.tok = tokenEOF -> Ret(newTextNode(string(sc.s)), NoErr, sc.s)
    [] OTHER -> Ret(nil, ErrParseFuncSubstitution, sc.s)

\* parse a substitution function parameter.
parseParam_tok(sc) ==
  CASE sc.tok = tokenLbrack -> parseFunc(sc.s)
    [] sc.tok = tokenIdent -> Ret(newTextNode(string(sc.s)), NoErr, sc.s)
    [] sc.tok = tokenRbrack -> Ret(newTextNode(string(sc.s)), NoErr, sc.s)
    [] OTHER -> Ret(nil, ErrParseFuncSubstitution, sc.s)

\* parseParam that does not look for a nested "${".
parseParam_noNested(s0, acceptF, mode) ==
  parseParam_tok(scan([s0 EXCEPT !.accept = acceptF, !.mode = mode]))

parseParam(s0, acceptF, mode) ==
  parseParam_tok(scan([s0 EXCEPT !.accept = acceptF, !.mode = mode \cup scanLbrack]))

\* parses the ${param:offset} and ${param:offset:length} string functions
parseSubstrFunc_arg2(p, node) ==
  IF p.err # NoErr THEN Fail(p)
  ELSE Close(AppendArg(node, p.node), consumeRbrack(p.s))
\* expect delimiter or close
parseSubstrFunc_delim(dl, node) ==
  IF dl.tok = tokenRbrack THEN Ret(node, NoErr, dl.s)
  ELSE IF dl.tok # tokenIdent THEN Ret(nil, ErrBadSubstitution, dl.s)
  ELSE parseSubstrFunc_arg2(parseParam(dl.s, "acceptNotClosing", scanIdent), node)
parseSubstrFunc_arg1(p, node) ==
  IF p.err # NoErr THEN Fail(p)
  ELSE parseSubstrFunc_delim(
         scan([p.s EXCEPT !.accept = "acceptColon", !.mode = scanIdent \cup scanRbrack]),
         AppendArg(node, p.node))
parseSubstrFunc_name(sc, name) ==
  IF sc.tok # tokenIdent THEN Ret(nil, ErrBadSubstitution, sc.s)
  ELSE parseSubstrFunc_arg1(parseParam(sc.s, "rejectColonClose", scanIdent),
                            FuncNode("parseSubstrFunc", name, string(sc.s), <<>>))
parseSubstrFunc(s0, name) ==
  parseSubstrFunc_name(scan([s0 EXCEPT !.accept = "acceptOneColon", !.mode = scanIdent]),
                       name)

\* parses the ${param%word}, ${param%%word}, ${param#word} and
\* ${param##word} string functions
parseRemoveFunc_arg(p, node) ==
  IF p.err # NoErr THEN Fail(p)
  ELSE Close(AppendArg(node, p.node), consumeRbrack(p.s))
\* parseRemoveFunc with the blank check of parseReplaceFunc.
parseRemoveFunc_name_blank(sc, name) ==
  IF sc.tok # tokenIdent THEN Ret(nil, ErrBadSubstitution, sc.s)
  ELSE IF peek(sc.s) = "}"
    THEN Close(FuncNode("parseRemoveFunc", name, string(sc.s), <<>>), consumeRbrack(sc.s))
  ELSE parseRemoveFunc_arg(parseParam(sc.s, "acceptNotClosing", scanIdent),
                           FuncNode("parseRemoveFunc", name, string(sc.s), <<>>))
parseRemoveFunc_name(sc, name) ==
  IF sc.tok # tokenIdent THEN Ret(nil, ErrBadSubstitution, sc.s)
  ELSE parseRemoveFunc_arg(parseParam(sc.s, "acceptNotClosing", scanIdent),
                           FuncNode("parseRemoveFunc", name, string(sc.s), <<>>))
parseRemoveFunc(s0, name, acceptF) ==
  parseRemoveFunc_name(scan([s0 EXCEPT !.accept = acceptF, !.mode = scanIdent]), name)

\* parses the ${param/pattern/string}, ${param//pattern/string},
\* ${param/#pattern/string} and ${param/%pattern/string} string functions
parseReplaceFunc_arg2(p, node) ==
  IF p.err # NoErr THEN Fail(p)
  ELSE Close(AppendArg(node, p.node), consumeRbrack(p.s))
\* expect delimiter, then check for blank string
parseReplaceFunc_delim(dl, node) ==
  IF dl.tok # tokenIdent THEN Ret(nil, ErrBadSubstitution, dl.s)
  ELSE IF peek(dl.s) = "}" THEN Close(node, consumeRbrack(dl.s))
  ELSE parseReplaceFunc_arg2(
         parseParam(dl.s, "acceptNotClosing", scanIdent \cup scanEscape), node)
parseReplaceFunc_arg1(p, node) ==
  IF p.err # NoErr THEN Fail(p)
  ELSE parseReplaceFunc_delim(
         scan([p.s EXCEPT !.accept = "acceptSlash", !.mode = scanIdent]),
         AppendArg(node, p.node))
parseReplaceFunc_name(sc, name) ==
  IF sc.tok # tokenIdent THEN Ret(nil, ErrBadSubstitution, sc.s)
  ELSE parseReplaceFunc_arg1(
         parseParam(sc.s, "acceptNotSlash", scanIdent \cup scanEscape),
         FuncNode("parseReplaceFunc", name, string(sc.s), <<>>))
parseReplaceFunc(s0, name) ==
  parseReplaceFunc_name(
    scan([s0 EXCEPT !.accept = "acceptReplaceFunc", !.mode = scanIdent]), name)

\* The loop of parseDefaultFunc: loop through all possible runes in the
\* default param; "}" is the break condition.
parseDefaultLoop_param(p, node) ==
  IF p.err # NoErr THEN Fail(p)
  ELSE parseDefaultLoop(p.s, AppendArg(node, p.node))
parseDefaultLoop(s0, node) ==
  IF s0.fuel <= 0 THEN Ret(nil, ErrDiverged, s0)
  ELSE IF peek(s0) = "}" THEN Close(node, consumeRbrack(Step(s0, "word")))
  ELSE parseDefaultLoop_param(
         parseParam(Step(s0, "word"), "acceptNotClosing", scanIdent), node)

\* parses the ${parameter=word}, ${parameter:=word}, ${parameter:-word},
\* ${parameter:?word} and ${parameter:+word} string functions
parseDefaultFunc_name(sc, name) ==
  IF sc.tok # tokenIdent THEN Ret(nil, ErrParseDefaultFunction, sc.s)
  ELSE parseDefaultLoop(sc.s, FuncNode("parseDefaultFunc", name, string(sc.s), <<>>))
parseDefaultFunc(s0, name) ==
  parseDefaultFunc_name(
    scan([s0 EXCEPT !.accept = IF peek(s0) = "=" THEN "acceptOneEqual"
                                ELSE "acceptDefaultFunc",
                    !.mode = scanIdent]),
    name)

\* parseDefaultOrSubstr without the unread.
parseDefaultOrSubstr_noUnread(s0, name) ==
  LET rd == read(s0)
      r == peek(rd.s)
      s1 == rd.s
      s2 == Log(s1, "lookahead", s0.pos, s1.pos, r)
  IN IF r \in {"=", "-", "?", "+"} THEN parseDefaultFunc(s2, name)
     ELSE parseSubstrFunc(s2, name)

\* parseDefaultOrSubstr with "-" missing from the default operators.
parseDefaultOrSubstr_noDash(s0, name) ==
  LET rd == read(s0)
      r == peek(rd.s)
      s1 == unread(rd.s)
      s2 == Log(s1, "lookahead", s0.pos, s1.pos, r)
  IN IF r \in {"=", "?", "+"} THEN parseDefaultFunc(s2, name)
     ELSE parseSubstrFunc(s2, name)

\* parse either a default or substring substitution function.
parseDefaultOrSubstr(s0, name) ==
  LET rd == read(s0)
      r == peek(rd.s)
      s1 == unread(rd.s)
      s2 == Log(s1, "lookahead", s0.pos, s1.pos, r)
  IN IF r \in {"=", "-", "?", "+"} THEN parseDefaultFunc(s2, name)
     ELSE parseSubstrFunc(s2, name)

\* parses the ${param,}, ${param,,}, ${param^} and ${param^^} string
\* functions
parseCasingFunc_name(sc, name) ==
  IF sc.tok # tokenIdent THEN Ret(nil, ErrBadSubstitution, sc.s)
  ELSE Close(FuncNode("parseCasingFunc", name, string(sc.s), <<>>), consumeRbrack(sc.s))
parseCasingFunc(s0, name) ==
  parseCasingFunc_name(
    scan([s0 EXCEPT !.accept = "acceptCasingFunc", !.mode = scanIdent]), name)

\* parses the ${#param} string function
parseLenFunc_param(id, name) ==
  IF id.tok # tokenIdent THEN Ret(nil, ErrBadSubstitution, id.s)
  ELSE Close(FuncNode("parseLenFunc", string(id.s), name, <<>>), consumeRbrack(id.s))
parseLenFunc_name(sc) ==
  IF sc.tok # tokenIdent THEN Ret(nil, ErrBadSubstitution, sc.s)
  ELSE parseLenFunc_param(
         scan([sc.s EXCEPT !.accept = "acceptIdent", !.mode = scanIdent]), string(sc.s))
parseLenFunc(s0) ==
  parseLenFunc_name(scan([s0 EXCEPT !.accept = "acceptOneHash", !.mode = scanIdent]))

\* parseFunc reporting a plain form that is not closed as a bad substitution.
parseFunc_close_badSubstitution(cl, name) ==
  IF cl.tok = tokenRbrack THEN Ret(newFuncNode(name), NoErr, cl.s)
  ELSE Ret(nil, ErrBadSubstitution, cl.s)

\* parseFunc parses the substitution whose "${" was just scanned: the
\* length form, or a variable name and then the production its operator
\* selects, or the closing brace of the plain form.
parseFunc_close(cl, name) ==
  IF cl.tok = tokenRbrack THEN Ret(newFuncNode(name), NoErr, cl.s)
  ELSE Ret(nil, ErrMissingClosingBrace, cl.s)
parseFunc_name(sc) ==
  LET name == string(sc.s)
      r == peek(sc.s)
  IN IF sc.tok # tokenIdent THEN Ret(nil, ErrParseVariableName, sc.s)
     ELSE CASE r = ":" -> parseDefaultOrSubstr(sc.s, name)
            [] r = "=" -> parseDefaultFunc(sc.s, name)
            [] r \in {",", "^"} -> parseCasingFunc(sc.s, name)
            [] r = "/" -> parseReplaceFunc(sc.s, name)
            [] r = "#" -> parseRemoveFunc(sc.s, name, "acceptHashFunc")
            [] r = "%" -> parseRemoveFunc(sc.s, name, "acceptPercentFunc")
            [] OTHER -> parseFunc_close(
                          scan([sc.s EXCEPT !.accept = "acceptIdent", !.mode = scanRbrack]),
                          name)
parseFunc(s0) ==
  \* Turn on all escape characters
  IF peek(s0) = "#" THEN parseLenFunc([s0 EXCEPT !.escapeChars = escapeAll])
  ELSE parseFunc_name(scan([s0 EXCEPT !.escapeChars = escapeAll,
                                      !.accept = "acceptIdent",
                                      !.mode = scanIdent]))

\* parseAny returning the empty remainder in place of the text in hand.
parseAny_textRight_returnRight(left, right) ==
  IF right.err # NoErr THEN Fail(right)
  ELSE IF right.node = empty THEN Ret(right.node, NoErr, right.s)
  ELSE Ret(newListNode(left, right.node), NoErr, right.s)

\* parseAny wrapping the empty remainder in a List.
parseAny_funcRight_wrapEmpty(left, right) ==
  IF right.err # NoErr THEN Fail(right)
  ELSE Ret(newListNode(left, right.node), NoErr, right.s)

\* parseAny parses literal text and substitutions up to the end of input.
\* case tokenIdent, after right, err := t.parseAny()
parseAny_textRight(left, right) ==
  IF right.err # NoErr THEN Fail(right)
  ELSE IF right.node = empty THEN Ret(left, NoErr, right.s)
  ELSE Ret(newListNode(left, right.node), NoErr, right.s)
\* case tokenLbrack, after right, err := t.parseAny()
parseAny_funcRight(left, right) ==
  IF right.err # NoErr THEN Fail(right)
  ELSE IF right.node = empty THEN Ret(left, NoErr, right.s)
  ELSE Ret(newListNode(left, right.node), NoErr, right.s)
\* parseAny handing back the node a failed production returned.
parseAny_func_keepPartial(fn) ==
  IF fn.err # NoErr THEN Ret(fn.node, fn.err, fn.s)
  ELSE parseAny_funcRight(fn.node, parseAny(fn.s))
\* case tokenLbrack, after left, err := t.parseFunc()
parseAny_func(fn) ==
  IF fn.err # NoErr THEN Fail(fn)
  ELSE parseAny_funcRight(fn.node, parseAny(fn.s))
parseAny_tok(sc) ==
  CASE sc.tok = tokenIdent -> parseAny_textRight(newTextNode(string(sc.s)), parseAny(sc.s))
    [] sc.tok = tokenEOF -> Ret(empty, NoErr, sc.s)
    [] sc.tok = tokenLbrack -> parseAny_func(parseFunc(sc.s))
    [] OTHER -> Ret(nil, ErrBadSubstitution, sc.s)
parseAny(s0) ==
  IF s0.fuel <= 0 THEN Ret(nil, ErrDiverged, s0)
  ELSE parseAny_tok(scan([Step(s0, "parseAny") EXCEPT
                            !.accept = "acceptRune",
                            !.mode = scanIdent \cup scanLbrack \cup scanEscape,
                            !.escapeChars = dollar]))

\* Parse parses the string and returns a Tree: Root and the error.
Parse_tree(res) == [Root |-> res.node, err |-> res.err, scanner |-> res.s]
Parse(buf) == Parse_tree(parseAny(init(buf)))

(***************************************************************************)
(* Expansion of a parsed tree against a resolver.  Only the plain and the  *)
(* default-family operators are modelled.                                  *)
(***************************************************************************)
DefaultNames == {<<"=">>, <<":", "=">>, <<":", "-">>, <<":", "?">>, <<":", "+">>}

RECURSIVE Expandable(_)
\* The trees Execute is modelled for.
Expandable(n) ==
  CASE n.kind = "Text" -> TRUE
    [] n.kind = "empty" -> TRUE
    [] n.kind = "List" -> Expandable(n.Left) /\ Expandable(n.Right)
    [] n.kind = "Func" ->
         /\ n.Name \in DefaultNames \cup {<<>>}
         /\ \A i \in 1..Len(n.Args) : Expandable(n.Args[i])
    [] OTHER -> FALSE

\* The resolver: a variable's value, or that it is unset.
resolve(env, name) ==
  IF name \in DOMAIN env THEN [set |-> TRUE, value |-> env[name]]
  ELSE [set |-> FALSE, value |-> <<>>]

ErrUnset == "unset with error"

RECURSIVE Execute(_, _)
RECURSIVE ExecuteArgs(_, _, _)
\* The evaluated word of a substitution: its arguments expanded, in order.
ExecuteArgs(args, i, env) ==
  IF i > Len(args) THEN [out |-> <<>>, err |-> NoErr]
  ELSE LET h == Execute(args[i], env)
           tl == ExecuteArgs(args, i + 1, env)
       IN IF h.err # NoErr THEN h
          ELSE IF tl.err # NoErr THEN tl
          ELSE [out |-> h.out \o tl.out, err |-> NoErr]

\* Execute expands the tree: the output string, or the expansion error.
Execute(n, env) ==
  CASE n.kind = "Text" -> [out |-> n.Value, err |-> NoErr]
    [] n.kind = "List" ->
         LET l == Execute(n.Left, env)
             r == Execute(n.Right, env)
         IN IF l.err # NoErr THEN l
            ELSE IF r.err # NoErr THEN r
            ELSE [out |-> l.out \o r.out, err |-> NoErr]
    [] n.kind = "Func" ->
         LET v == resolve(env, n.Param)
             blank == ~v.set \/ v.value = <<>>
             word == ExecuteArgs(n.Args, 1, env)
         IN CASE n.Name = <<>> -> [out |-> v.value, err |-> NoErr]
              [] n.Name \in {<<":", "-">>, <<"=">>, <<":", "=">>} ->
                   IF blank THEN word ELSE [out |-> v.value, err |-> NoErr]
              [] n.Name = <<":", "?">> ->
                   IF ~blank THEN [out |-> v.value, err |-> NoErr]
                   ELSE IF word.err # NoErr THEN word
                   ELSE [out |-> word.out, err |-> ErrUnset]
              [] n.Name = <<":", "+">> ->
                   IF blank THEN [out |-> <<>>, err |-> NoErr] ELSE word
              [] OTHER -> [out |-> <<>>, err |-> NoErr]
    [] OTHER -> [out |-> <<>>, err |-> NoErr]

(***************************************************************************)
(* Templates and resolvers the model is run on.                            *)
(***************************************************************************)
Alphabet == {"$", "{", "}", "a", ":", "-", "#", "/", "="}

RECURSIVE Strings(_)
\* Every template over Alphabet of length at most n.
Strings(n) ==
  IF n = 0 THEN {<<>>}
  ELSE LET S == Strings(n - 1)
       IN S \cup {Append(w, c) : w \in S, c \in Alphabet}

Prefixes(w) == {SubSeq(w, 1, n) : n \in 0..Len(w)}

Seeds ==
  { <<"$","{","V","A","R",":","-","$","{","O","T","H","E","R","}","}">>,
    <<"$","{","V","A","R",":","-","2","}">>,
    <<"$","{","V","A","R",":","1",":","3","}">>,
    <<"$","{","V","A","R","}">>,
    <<"$","{","#","V","A","R","}">>,
    <<"$","{","a",":","=","x","}">>,
    <<"$","{","a","=","x","}">>,
    <<"$","{","a",":","?","x","}">>,
    <<"$","{","a",":","+","x","}">>,
    <<"$","{","a",":","-","x","$","{","b","}","y","}">>,
    <<"$","{","a",":","-","$","{","b",":","-","$","{","x","}","}","}">>,
    <<"$","{","a",":","-","x","}","$","{","b","}">>,
    <<"$","{","a",":","$","{","b","}",":","$","{","x","}","}">>,
    <<"$","{","a","/","$","{","b","}","/","$","{","x","}","}">>,
    <<"$","{","a","#","#","x","}">>,
    <<"$","{","a","%","x","}">>,
    <<"$","{","a","%","%","x","}">>,
    <<"$","{","a","/","/","x","/","y","}">>,
    <<"$","{","a","/","x","/","}">>,
    <<"$","{","a","^","^","}">>,
    <<"$","{","a",",","}">>,
    <<"x","$","{","a","}","y","$","{","b","}">>,
    <<"x","$","$","y","$","$","$","{","a","}">>,
    <<"$","{","a"," ","}">>,
    <<"$","{","a","=","$","{","b","=","x","}","y","}">>,
    <<"$","{","a","^","x","}">>,
    <<"$","{","a","=","}">>,
    <<"$","{","a",":","?","}","=","^">>,
    <<"$","{","a","/","#","x","/","$","$","}">>,
    <<"$","{","#","}">>,
    <<"$","{","}">> }

WrapOpen == <<"$", "{", "a">>

\* The templates: every short one, every short one inside "${a" ... and
\* "${a" ... "}", and every prefix of a seed.
Inputs ==
  LET S == Strings(MaxLen)
  IN S \cup {WrapOpen \o w : w \in S} \cup {WrapOpen \o w \o <<"}">> : w \in S}
       \cup UNION {Prefixes(w) : w \in Seeds}

NameVAR == <<"V", "A", "R">>
NameOTHER == <<"O", "T", "H", "E", "R">>
abcdef == <<"a", "b", "c", "d", "e", "f">>

Envs ==
  { <<>>,
    (NameVAR :> abcdef) @@ (NameOTHER :> <<"y">>) @@ (<<"a">> :> <<"A">>) @@ (<<"b">> :> <<>>),
    (NameOTHER :> <<"y">>) @@ (<<"b">> :> <<"B">>) @@ (<<"x">> :> <<"X">>) }

(***************************************************************************)
(* The state machine: a template is parsed, and a tree that parsed is      *)
(* expanded.                                                               *)
(***************************************************************************)
VARIABLES input, phase, tree, hist, env, result

vars == <<input, phase, tree, hist, env, result>>

NoResult == [out |-> <<>>, err |-> NoErr]

Init ==
  /\ input \in Inputs
  /\ phase = "ready"
  /\ tree = [Root |-> nil, err |-> NoErr]
  /\ hist = <<>>
  /\ env = <<>>
  /\ result = NoResult

\* tree, err := Parse(input)
DoParse ==
  /\ phase = "ready"
  /\ LET t == Parse(input)
     IN /\ tree' = [Root |-> t.Root, err |-> t.err]
        /\ hist' = t.scanner.hist
  /\ phase' = "parsed"
  /\ UNCHANGED <<input, env, result>>

\* result := Execute(tree, resolver)
DoExecute ==
  /\ phase = "parsed"
  /\ tree.err = NoErr
  /\ Expandable(tree.Root)
  /\ \E e \in Envs :
       /\ env' = e
       /\ result' = Execute(tree.Root, e)
  /\ phase' = "executed"
  /\ UNCHANGED <<input, tree, hist>>

Next == DoParse \/ DoExecute

Spec == Init /\ [][Next]_vars

(***************************************************************************)
(* Vocabulary of the properties.                                           *)
(***************************************************************************)
Range(w) == {w[i] : i \in 1..Len(w)}
StartsWith(w, p) == Len(w) >= Len(p) /\ SubSeq(w, 1, Len(p)) = p
HasSub(w, p) == \E i \in 1..(Len(w) - Len(p) + 1) : SubSeq(w, i, i + Len(p) - 1) = p
IdentRunes == Letters \cup Digits \cup {"_"}
OperatorRunes == {":", "=", ",", "^", "/", "#", "%"}
Lbrack == <<"$", "{">>
Escape == <<"$", "$">>

Parsed == phase # "ready"
ParsedOk == Parsed /\ tree.err = NoErr

\* The longest run of identifier runes of w from index i on.
RECURSIVE IdentRun(_, _)
IdentRun(w, i) ==
  IF i <= Len(w) /\ w[i] \in IdentRunes THEN <<w[i]>> \o IdentRun(w, i + 1) ELSE <<>>

\* Every Func node of a tree, at every depth.
RECURSIVE FuncNodes(_)
FuncNodes(n) ==
  CASE n.kind = "List" -> FuncNodes(n.Left) \cup FuncNodes(n.Right)
    [] n.kind = "Func" -> {n} \cup UNION {FuncNodes(n.Args[i]) : i \in 1..Len(n.Args)}
    [] OTHER -> {}

\* The source text of a tree whose literal text holds no escape.
RECURSIVE Unparse(_)
RECURSIVE UnparseArgs(_, _)
UnparseArgs(args, i) ==
  IF i > Len(args) THEN <<>> ELSE Unparse(args[i]) \o UnparseArgs(args, i + 1)
Unparse(n) ==
  CASE n.kind = "Text" -> n.Value
    [] n.kind = "List" -> Unparse(n.Left) \o Unparse(n.Right)
    [] n.kind = "Func" -> Lbrack \o n.Param \o n.Name \o UnparseArgs(n.Args, 1) \o <<"}">>
    [] OTHER -> <<>>

\* The nodes of the top-level chain, in order.
RECURSIVE Chain(_)
Chain(n) ==
  CASE n.kind = "empty" -> <<>>
    [] n.kind = "List" -> <<n.Left>> \o Chain(n.Right)
    [] OTHER -> <<n>>

Events(ev) == SelectSeq(hist, LAMBDA e : e.ev = ev)

(***************************************************************************)
(* Properties.                                                             *)
(***************************************************************************)

Last(w, n) == SubSeq(w, Len(w) - n + 1, Len(w))
Template_VAR_dash_2 == <<"$", "{", "V", "A", "R", ":", "-", "2", "}">>

\* C2 as stated: ${VAR:-2} is a substring expansion with offset -2, and
\* with VAR = "abcdef" it expands to "ef".
C2_NegativeOffset ==
  input = Template_VAR_dash_2 =>
    /\ Parsed => (tree.err = NoErr /\ tree.Root.prod = "parseSubstrFunc")
    /\ (phase = "executed" /\ resolve(env, NameVAR).value = abcdef) =>
         result.out = Last(abcdef, 2)

\* The templates ${name:-word} whose word is a run of identifier runes.
IsDashWord(w) ==
  /\ StartsWith(w, Lbrack)
  /\ LET name == IdentRun(w, 3)
         word == IdentRun(w, Len(name) + 5)
     IN /\ name # <<>> /\ word # <<>>
        /\ w = Lbrack \o name \o <<":", "-">> \o word \o <<"}">>

\* C2 (amended): ${VAR:-n}, n a run of identifier runes (digits included),
\* is a default-value expansion: it parses to Func(param VAR, name ":-",
\* args [Text n]) and expands to VAR's value when VAR is set and not
\* empty, and to n otherwise; ${VAR:-2} with VAR = "abcdef" gives "abcdef".
C2_DashIsDefault ==
  IsDashWord(input) =>
    LET name == IdentRun(input, 3)
        word == IdentRun(input, Len(name) + 5)
        v == resolve(env, name)
    IN /\ Parsed => tree = [Root |-> FuncNode("parseDefaultFunc", name, <<":", "-">>,
                                               <<newTextNode(word)>>),
                            err |-> NoErr]
       /\ phase = "executed" =>
            result = [out |-> IF v.set /\ v.value # <<>> THEN v.value ELSE word,
                      err |-> NoErr]

C2_Witness ==
  /\ phase = "executed"
  /\ input = Template_VAR_dash_2
  /\ resolve(env, NameVAR).value = abcdef
  /\ result.out = abcdef

Template_VAR_dash_OTHER ==
  <<"$", "{", "V", "A", "R", ":", "-", "$", "{", "O", "T", "H", "E", "R", "}", "}">>

\* A default-family tree: only plain and default-family Func nodes.
DefaultOnly(n) == \A f \in FuncNodes(n) : f.prod \in {"parseFunc", "parseDefaultFunc"}

\* C3: a default-family substitution gets one argument per word fragment,
\* in source order, each a literal Text run or a nested Func, and its word
\* ends only at the "}" of the substitution itself: a tree of plain and
\* default-family nodes reads back as the template, with nothing left over,
\* and no two Text fragments are adjacent.  ${VAR:-${OTHER}} parses to
\* Func(VAR, ":-", [Func(OTHER)]) and, with VAR unset and OTHER = "y",
\* expands to "y".
C3_DefaultWord ==
  /\ ParsedOk =>
       \A f \in FuncNodes(tree.Root) :
         f.prod = "parseDefaultFunc" =>
           /\ f.Name \in DefaultNames
           /\ \A i \in 1..Len(f.Args) :
                /\ f.Args[i].kind \in {"Text", "Func"}
                /\ f.Args[i].kind = "Text" =>
                     /\ f.Args[i].Value # <<>>
                     /\ "}" \notin Range(f.Args[i].Value)
                     /\ i > 1 => f.Args[i - 1].kind = "Func"
  /\ (ParsedOk /\ DefaultOnly(tree.Root) /\ ~HasSub(input, Escape)) =>
       Unparse(tree.Root) = input
  /\ input = Template_VAR_dash_OTHER =>
       /\ Parsed => tree = [Root |-> FuncNode("parseDefaultFunc", NameVAR, <<":", "-">>,
                                               <<newFuncNode(NameOTHER)>>),
                            err |-> NoErr]
       /\ (phase = "executed" /\ ~resolve(env, NameVAR).set
             /\ resolve(env, NameOTHER).value = <<"y">>) =>
            result = [out |-> <<"y">>, err |-> NoErr]

C3_Witness ==
  /\ phase = "executed"
  /\ input = Template_VAR_dash_OTHER
  /\ ~resolve(env, NameVAR).set
  /\ resolve(env, NameOTHER).value = <<"y">>
  /\ result.out = <<"y">>

\* A template that opens a substitution on a variable name (or on "#" and a
\* variable name) and holds no "}" at all.
OpenedNotClosed(w) ==
  /\ StartsWith(w, Lbrack)
  /\ "}" \notin Range(w)
  /\ \/ IdentRun(w, 3) # <<>>
     \/ Len(w) >= 3 /\ w[3] = "#" /\ IdentRun(w, 4) # <<>>

\* The rune after the variable name of the substitution that opens w.
AfterName(w) ==
  LET i == 3 + Len(IdentRun(w, 3)) IN IF i <= Len(w) THEN w[i] ELSE eof

\* The number of "${" in w.
Opens(w) == Cardinality({i \in 1..Len(w) - 1 : SubSeq(w, i, i + 1) = Lbrack})

\* C4 as stated: a substitution that is opened and not closed before the
\* end of input fails with ErrMissingClosingBrace, whatever its form.
C4_AlwaysMissingClosingBrace ==
  (Parsed /\ OpenedNotClosed(input)) => tree.err = ErrMissingClosingBrace

\* C4 (amended): a substitution that is opened and not closed before the
\* end of input makes Parse fail.  The error is ErrMissingClosingBrace when
\* the substitution is the plain form (the name is followed by the end of
\* input or by a rune that starts no operator).  An operator form that holds
\* no nested "${" fails with ErrBadSubstitution (input ends where "}" or a
\* delimiter is due: ${VAR:1, ${VAR#p, ${VAR/p/s, ${VAR^^, ${#VAR) or with
\* ErrParseFuncSubstitution (input ends where an argument is due: ${VAR:-x,
\* ${VAR:, ${VAR#), never with ErrMissingClosingBrace.
C4_UnclosedErrors ==
  (Parsed /\ OpenedNotClosed(input)) =>
    /\ tree.err # NoErr
    /\ (IdentRun(input, 3) # <<>> /\ AfterName(input) \notin OperatorRunes) =>
         tree.err = ErrMissingClosingBrace
    /\ ((IdentRun(input, 3) = <<>> \/ AfterName(input) \in OperatorRunes)
          /\ Opens(input) = 1) =>
         tree.err \in {ErrBadSubstitution, ErrParseFuncSubstitution}
    /\ input \in { <<"$","{","V","A","R",":","1">>, <<"$","{","a","#","#","x">>,
                   <<"$","{","a","/","/","x","/","y">>, <<"$","{","a","^","^">>,
                   <<"$","{","#","V","A","R">> } => tree.err = ErrBadSubstitution
    /\ input \in { <<"$","{","V","A","R",":","-","2">>, <<"$","{","V","A","R",":">>,
                   <<"$","{","a","#">> } => tree.err = ErrParseFuncSubstitution

C4_Witness ==
  /\ Parsed
  /\ input = <<"$", "{", "V", "A", "R", ":", "-", "2">>
  /\ tree.err = ErrParseFuncSubstitution

\* A template that opens a substitution where no variable name follows:
\* "${" and then the end of input or a rune that is neither an identifier
\* rune nor "#", or "${#" and then the end of input or a rune that is no
\* identifier rune.
NameMissing(w) ==
  /\ StartsWith(w, Lbrack)
  /\ \/ Len(w) = 2
     \/ Len(w) >= 3 /\ w[3] \notin IdentRunes \cup {"#"}
     \/ Len(w) >= 3 /\ w[3] = "#" /\ IdentRun(w, 4) = <<>>

\* C5: where a variable name is expected in a substitution and none is
\* found, Parse fails with ErrParseVariableName; this covers "${}" and the
\* length form without a name, "${#}".
C5_NameMissingError ==
  (Parsed /\ NameMissing(input)) => tree.err = ErrParseVariableName

\* C6: when Parse returns an error the tree has no node: Root is nil.
C6_AllOrNothing ==
  (Parsed /\ tree.err # NoErr) => tree.Root = nil

\* An error raised by the closing-brace check of a substring node that has
\* both arguments, and one raised inside a nested substitution.
C6_Witness ==
  /\ Parsed
  /\ input = <<"$", "{", "V", "A", "R", ":", "1", ":", "3">>
  /\ tree.err = ErrBadSubstitution
  /\ tree.Root = nil

\* k slashes.
RECURSIVE Slashes(_)
Slashes(k) == IF k = 0 THEN <<>> ELSE <<"/">> \o Slashes(k - 1)

\* A replace node at the root whose arguments are literal: the template is
\* "${" param operator pattern, one or more "/", the replacement, "}", and
\* the replacement is absent when "}" follows the "/" at once.
ReplaceShape(f, w) ==
  \E k \in 1..Len(w) :
    /\ w = Lbrack \o f.Param \o f.Name \o f.Args[1].Value \o Slashes(k)
             \o (IF Len(f.Args) = 2 THEN f.Args[2].Value ELSE <<>>) \o <<"}">>
    /\ Len(f.Args) = 2 => (f.Args[2].Value # <<>> /\ f.Args[2].Value[1] # "/")

\* C7: in a tree that parsed, at every depth, plain, length and case nodes
\* have no argument, substring nodes have 1 or 2, trim nodes have exactly 1,
\* replace nodes have 1 or 2, and 1 only when "}" follows the "/" delimiter
\* at once.
C7_ArgCounts ==
  ParsedOk =>
    /\ \A f \in FuncNodes(tree.Root) :
         CASE f.prod = "parseFunc" -> f.Name = <<>> /\ Len(f.Args) = 0
           [] f.prod = "parseLenFunc" -> f.Name = <<"#">> /\ Len(f.Args) = 0
           [] f.prod = "parseCasingFunc" ->
                /\ Len(f.Name) \in {1, 2} /\ Range(f.Name) \subseteq {",", "^"}
                /\ Len(f.Args) = 0
           [] f.prod = "parseSubstrFunc" -> f.Name = <<":">> /\ Len(f.Args) \in {1, 2}
           [] f.prod = "parseRemoveFunc" ->
                /\ f.Name \in {<<"#">>, <<"#", "#">>, <<"%">>, <<"%", "%">>}
                /\ Len(f.Args) = 1
           [] f.prod = "parseReplaceFunc" ->
                /\ f.Name \in {<<"/">>, <<"/", "/">>, <<"/", "#">>, <<"/", "%">>}
                /\ Len(f.Args) \in {1, 2}
           [] f.prod = "parseDefaultFunc" -> f.Name \in DefaultNames
           [] OTHER -> FALSE
    /\ ( /\ tree.Root.kind = "Func"
         /\ tree.Root.prod = "parseReplaceFunc"
         /\ \A i \in 1..Len(tree.Root.Args) : tree.Root.Args[i].kind = "Text"
         /\ ~HasSub(input, Escape) ) => ReplaceShape(tree.Root, input)

\* A replace node with the replacement left out, and nested substring
\* arguments.
C7_Witness ==
  /\ ParsedOk
  /\ input = <<"$", "{", "a", "/", "x", "/", "}">>
  /\ tree.Root.prod = "parseReplaceFunc"
  /\ Len(tree.Root.Args) = 1

RECURSIVE RightLeaning(_)
\* Every List has a Text or Func on the left and no empty node below it.
RightLeaning(n) ==
  n.kind = "List" =>
    /\ n.Left.kind \in {"Text", "Func"}
    /\ n.Right.kind \in {"Text", "Func", "List"}
    /\ RightLeaning(n.Right)

Template_VAR == <<"$", "{", "V", "A", "R", "}">>

\* C8: in a tree that parsed, no List has the empty sentinel as a child and
\* every List has a Text or Func on the left; the Root is the empty
\* sentinel exactly for the empty template; every parseAny call but the
\* last contributes exactly one node of the chain, so that a single literal
\* run or a single substitution is the Root itself.
C8_ListShape ==
  ParsedOk =>
    /\ tree.Root.kind \in {"empty", "Text", "Func", "List"}
    /\ RightLeaning(tree.Root)
    /\ \A f \in FuncNodes(tree.Root) :
         \A i \in 1..Len(f.Args) : f.Args[i].kind \in {"Text", "Func"}
    /\ tree.Root = empty <=> input = <<>>
    /\ Len(Events("parseAny")) = Len(Chain(tree.Root)) + 1
    /\ (input # <<>> /\ ~HasSub(input, Lbrack)) => tree.Root.kind = "Text"
    /\ input = Template_VAR => tree.Root = newFuncNode(NameVAR)

C8_Witness ==
  /\ ParsedOk
  /\ input = <<"x", "$", "{", "a", "}", "y", "$", "{", "b", "}">>
  /\ tree.Root.kind = "List"
  /\ Len(Chain(tree.Root)) = 4

\* The rune after the ":" that follows the name of the substitution that
\* opens w.
AfterColon(w) ==
  LET i == 4 + Len(IdentRun(w, 3)) IN IF i <= Len(w) THEN w[i] ELSE eof

\* C9: after a variable name and ":", the rune after the ":" alone selects
\* the production: "=", "-", "?" or "+" gives a default-family Func named
\* ":" and that rune, any other rune the substring Func named ":".  The
\* lookahead leaves the cursor where it was, so the operator is scanned from
\* the ":" on and the default operator never fails to scan.
C9_ColonLookahead ==
  Parsed =>
    /\ \A i \in 1..Len(hist) :
         hist[i].ev = "lookahead" => hist[i].after = hist[i].pos
    /\ tree.err # ErrParseDefaultFunction
    /\ ( /\ tree.err = NoErr
         /\ StartsWith(input, Lbrack)
         /\ IdentRun(input, 3) # <<>>
         /\ AfterName(input) = ":" ) =>
         LET f == Chain(tree.Root)[1]
             r == AfterColon(input)
         IN /\ f.kind = "Func"
            /\ f.Param = IdentRun(input, 3)
            /\ IF r \in {"=", "-", "?", "+"}
                 THEN f.prod = "parseDefaultFunc" /\ f.Name = <<":", r>>
                 ELSE f.prod = "parseSubstrFunc" /\ f.Name = <<":">>

C9_Witness ==
  /\ ParsedOk
  /\ input = <<"$", "{", "a", ":", "=", "x", "}">>
  /\ tree.Root.Name = <<":", "=">>
  /\ Len(Events("lookahead")) = 1

\* The steps that may repeat: the parseAny calls and the iterations of the
\* loop of parseDefaultFunc, in the order they were taken.
Steps == SelectSeq(hist, LAMBDA e : e.ev \in {"parseAny", "word"})

\* C10: Parse terminates: no parseAny call and no iteration of the loop of
\* parseDefaultFunc starts at a cursor position at which an earlier one
\* started, so the step budget (one step per rune, and two) is never used
\* up.
C10_Progress ==
  Parsed =>
    /\ tree.err # ErrDiverged
    /\ \A i \in 2..Len(Steps) : Steps[i].pos > Steps[i - 1].pos

\* The end of input inside a default word that is not closed.
C10_Witness ==
  /\ Parsed
  /\ input = <<"$", "{", "a", ":", "-", "x", "$", "{", "b", "}", "y">>
  /\ tree.err = ErrParseFuncSubstitution
  /\ Len(Events("word")) = 4

====
